---- MODULE Spec2Model ----
(***************************************************************************)
(* HdfDatasetModelBase (src/src/dataset.ts): the lazily paginated grid     *)
(* data model.  The state is the model's private fields plus the requests  *)
(* that are in flight at the server; one action per public method and per  *)
(* promise callback.  JavaScript is single threaded, so every handler runs *)
(* to completion: a handler is one atomic action, and the only             *)
(* interleaving is the order in which responses arrive.                    *)
(***************************************************************************)
EXTENDS Integers, Sequences, FiniteSets, Bags, TLC

(* ------------------------------ bounds -------------------------------- *)

\* at most this many requests (metadata and block data) are in flight at once
MaxInFlight == 2

(* -------------------------- program constants ------------------------- *)

_blockSize == 100

(* ----------------------- the server's datasets ------------------------ *)

\* the slice strings a user types into the slice input
IxA == ":250, :50"
IxB == "10:330:2, :150"
IxStrs == {IxA, IxB}

\* noneSlice() of ./slice: the no-op slice
noneSlice == [start |-> 0, stop |-> 0, step |-> 1]

\* the `undefined` of an unset field or a missing property
Undefined == [tag |-> "undefined"]

\* IDatasetMeta, as hdfContentsRequest answers it for a slice string
MetaOf(ixstr) ==
    IF ixstr = IxA
    THEN [tag |-> "meta", ixstr |-> IxA, visshape |-> <<250, 50>>,
          vislabels |-> << [start |-> 0, stop |-> 250, step |-> 1],
                           [start |-> 0, stop |-> 50, step |-> 1] >>]
    ELSE [tag |-> "meta", ixstr |-> IxB, visshape |-> <<160, 150>>,
          vislabels |-> << [start |-> 10, stop |-> 330, step |-> 2],
                           [start |-> 0, stop |-> 150, step |-> 1] >>]

\* the 2-D array hdfDataRequest answers for (ixstr, subixstr): the
\* rectangle [row, rowStop) x [column, colStop) of the slice ixstr
DataOf(req) ==
    [tag |-> "data", ixstr |-> req.ixstr, row |-> req.row, rowStop |-> req.rowStop,
     column |-> req.column, colStop |-> req.colStop]

\* the rows and columns a painting surface asks for (representatives of
\* every block, of block edges and of clipped blocks)
QueryRows == {150, 249}
QueryCols == {0, 120}

(* ------------------------------- state -------------------------------- *)

VARIABLES
    _fpath,       \* this._fpath: "" until init() binds the resource
    _ixstr,       \* this._ixstr
    _meta,        \* this._meta
    _blocks,      \* this._blocks: row block -> (column block -> "busy" | data)
    _ready,       \* this._ready: "pending", "scheduled" (the .then of init is queued), "resolved"
    metaReqs,     \* bag of hdfContentsRequest calls in flight
    dataReqs,     \* bag of hdfDataRequest calls in flight
    emitted,      \* what the last handler emitted (changed + refreshed signals), in order
    observed,     \* what a listener reads from rowCount/columnCount("body") during each emission
    last,         \* history: the handler that ran last, its arguments, what it returned or found
    issued,       \* history: block -> number of fetches issued for it since the last invalidation
    settled,      \* history: block -> outcome of the fetch issued for it since the last invalidation
    lastArrived   \* history: the metadata of the last successful metadata response

vars == <<_fpath, _ixstr, _meta, _blocks, _ready, metaReqs, dataReqs, emitted,
          observed, last, issued, settled, lastArrived>>

(* ------------------------------ accessors ----------------------------- *)

\* m?.visshape[i] || 0
rowCount(m) == IF m = Undefined THEN 0 ELSE m.visshape[1]
columnCount(m) == IF m = Undefined THEN 0 ELSE m.visshape[2]

rowSlice(m) == IF m = Undefined THEN noneSlice ELSE m.vislabels[1]
colSlice(m) == IF m = Undefined THEN noneSlice ELSE m.vislabels[2]

\* <<rowCount("body"), columnCount("body")>> while this._meta is m
bodyExtent(m) == <<rowCount(m), columnCount(m)>>

Min(a, b) == IF a < b THEN a ELSE b

\* the block coordinates data() derives from a cell
relOf(x) == x % _blockSize
blockOf(x) == (x - relOf(x)) \div _blockSize

\* every block a queried cell can fall into
Blocks == {<<blockOf(r), blockOf(c)>> : r \in QueryRows, c \in QueryCols}

\* this._blocks[rowBlock][colBlock], for a row block that exists
blockAt(blocks, rowBlock, colBlock) ==
    IF colBlock \in DOMAIN blocks[rowBlock] THEN blocks[rowBlock][colBlock] ELSE Undefined

Busy == [tag |-> "busy"]

Null == [tag |-> "null"]
TypeError == [tag |-> "TypeError"]

\* the resource every model of this development is bound to
Fpath == "data.h5"

\* data[relRow][relCol] on a fetched 2-D array: indexing past the last row
\* gives undefined[relCol], which throws; past the last column, undefined
cellOf(data, relRow, relCol) ==
    IF relRow >= data.rowStop - data.row THEN TypeError
    ELSE IF relCol >= data.colStop - data.column THEN Undefined
    ELSE [tag |-> "value", ixstr |-> data.ixstr,
          row |-> data.row + relRow, col |-> data.column + relCol]

(* ------------------------------- events ------------------------------- *)

Changed(args) == [signal |-> "changed", args |-> args]
RowsRemoved(span) == Changed([type |-> "rows-removed", region |-> "body", index |-> 0, span |-> span])
ColumnsRemoved(span) == Changed([type |-> "columns-removed", region |-> "body", index |-> 0, span |-> span])
RowsInserted(span) == Changed([type |-> "rows-inserted", region |-> "body", index |-> 0, span |-> span])
ColumnsInserted(span) == Changed([type |-> "columns-inserted", region |-> "body", index |-> 0, span |-> span])
ModelReset == Changed([type |-> "model-reset"])
CellsChanged(row, column, rowSpan, columnSpan) ==
    Changed([type |-> "cells-changed", region |-> "body", row |-> row, column |-> column,
             rowSpan |-> rowSpan, columnSpan |-> columnSpan])
Refreshed(ixstr) == [signal |-> "refreshed", args |-> ixstr]

(* ------------------------------ history ------------------------------- *)

NoFetch == [tag |-> "none"]
Failed == [tag |-> "failed"]
Resolved(data) == [tag |-> "resolved", data |-> data]

\* every request in flight when an invalidation happens was issued before it
Outdate(reqs) ==
    LET old(r) == [r EXCEPT !.stale = TRUE]
        fresh(r) == [r EXCEPT !.stale = FALSE]
        count(r) == IF r \in DOMAIN reqs THEN reqs[r] ELSE 0
    IN  [s \in {old(r) : r \in DOMAIN reqs} |-> count(s) + count(fresh(s))]

(* ------------------------------- Init --------------------------------- *)

\* the fields as the constructor and the field initialisers leave them
Init ==
    /\ _fpath = ""
    /\ _ixstr = ""
    /\ _meta = Undefined
    /\ _blocks = <<>>
    /\ _ready = "pending"
    /\ metaReqs = EmptyBag
    /\ dataReqs = EmptyBag
    /\ emitted = <<>>
    /\ observed = <<>>
    /\ last = [op |-> "constructor"]
    /\ issued = [b \in Blocks |-> 0]
    /\ settled = [b \in Blocks |-> NoFetch]
    /\ lastArrived = Undefined

(* ------------------------------ _refresh ------------------------------ *)

\* the six notifications of one invalidation cycle
refreshEvents(oldRowCount, oldColCount, meta, ixstr) ==
    << RowsRemoved(oldRowCount), ColumnsRemoved(oldColCount),
       RowsInserted(rowCount(meta)), ColumnsInserted(columnCount(meta)),
       ModelReset, Refreshed(ixstr) >>

\* mutant of refreshObserved: the metadata is swapped in after the two
\* removal events
refreshObserved_swapAfterRemovals(oldMeta, meta) ==
    [i \in 1..6 |-> IF i <= 2 THEN bodyExtent(oldMeta) ELSE bodyExtent(meta)]

\* what rowCount/columnCount("body") report during each of the six emissions:
\* this._meta = meta is assigned before the first emit
refreshObserved(oldMeta, meta) == [i \in 1..6 |-> bodyExtent(meta)]

\* mutant of _refresh: the old extent is read after the metadata is swapped
_refresh_oldExtentAfterSwap(meta, ixstr) ==
    /\ _meta' = meta
    /\ _blocks' = <<>>
    /\ emitted' = refreshEvents(rowCount(meta), columnCount(meta), meta, ixstr)
    /\ observed' = refreshObserved(_meta, meta)
    /\ dataReqs' = Outdate(dataReqs)
    /\ issued' = [b \in Blocks |-> 0]
    /\ settled' = [b \in Blocks |-> NoFetch]

\* _refresh(meta), run while this.ixstr reads ixstr
_refresh(meta, ixstr) ==
    LET oldRowCount == rowCount(_meta)
        oldColCount == columnCount(_meta)
    IN  /\ _meta' = meta
        /\ _blocks' = <<>>
        /\ emitted' = refreshEvents(oldRowCount, oldColCount, meta, ixstr)
        /\ observed' = refreshObserved(_meta, meta)
        /\ dataReqs' = Outdate(dataReqs)
        /\ issued' = [b \in Blocks |-> 0]
        /\ settled' = [b \in Blocks |-> NoFetch]

(* -------------------------------- init -------------------------------- *)

\* mutant of init: the ready promise is resolved at once, not in the .then
\* of _refresh
init_resolvesAtOnce(ixstr) ==
    /\ _fpath = ""
    /\ _fpath' = Fpath
    /\ _ixstr' = ixstr
    /\ _refresh(MetaOf(ixstr), ixstr)
    /\ _ready' = "resolved"
    /\ last' = [op |-> "init", ixstr |-> ixstr,
                oldRowCount |-> rowCount(_meta), oldColCount |-> columnCount(_meta)]
    /\ UNCHANGED <<metaReqs, lastArrived>>

\* init({fpath, uri, meta}): the context (or the first metadata response)
\* is ready; _refresh runs synchronously, its .then is queued
init(ixstr) ==
    /\ _fpath = ""
    /\ _fpath' = Fpath
    /\ _ixstr' = ixstr
    /\ _refresh(MetaOf(ixstr), ixstr)
    /\ _ready' = "scheduled"
    /\ last' = [op |-> "init", ixstr |-> ixstr,
                oldRowCount |-> rowCount(_meta), oldColCount |-> columnCount(_meta)]
    /\ UNCHANGED <<metaReqs, lastArrived>>

\* the callback of init's _refresh(meta).then: a microtask, so it runs
\* before any other handler
readyResolve ==
    /\ _ready = "scheduled"
    /\ _ready' = "resolved"
    /\ emitted' = <<>>
    /\ observed' = <<>>
    /\ last' = [op |-> "ready"]
    /\ UNCHANGED <<_fpath, _ixstr, _meta, _blocks, metaReqs, dataReqs, issued, settled, lastArrived>>

\* no microtask is queued: the event loop may run the next handler
Idle == _ready # "scheduled"

\* the bound of this development on the requests in flight leaves room for one more
CanSend == BagCardinality(metaReqs) + BagCardinality(dataReqs) < MaxInFlight

(* ----------------------------- _fetchBlock ---------------------------- *)

\* mutant of rowStopOf: the block is not clipped at the grid edge
rowStopOf_noClip(row, meta) == row + _blockSize

rowStopOf(row, meta) == Min(row + _blockSize, rowCount(meta))
colStopOf(column, meta) == Min(column + _blockSize, columnCount(meta))

\* the request _fetchBlock sends, with the values its callback closes over
blockRequest(rowBlock, colBlock) ==
    LET row == rowBlock * _blockSize
        column == colBlock * _blockSize
    IN  [rowBlock |-> rowBlock, colBlock |-> colBlock,
         row |-> row, rowStop |-> rowStopOf(row, _meta),
         column |-> column, colStop |-> colStopOf(column, _meta),
         ixstr |-> _ixstr,
         \* history: issued before the last invalidation; the visible shape at issue
         stale |-> FALSE, vis |-> <<rowCount(_meta), columnCount(_meta)>>]

\* blocks with [rowBlock][colBlock] set to v (the row object exists or is created)
putBlock(blocks, rowBlock, colBlock, v) ==
    LET rowObj == IF rowBlock \in DOMAIN blocks THEN blocks[rowBlock] ELSE <<>>
    IN  (rowBlock :> ((colBlock :> v) @@ rowObj)) @@ blocks

\* mutant of _fetchBlock: the entry is not marked "busy"
_fetchBlock_noMark(rowBlock, colBlock) ==
    /\ _blocks' = IF rowBlock \in DOMAIN _blocks THEN _blocks ELSE (rowBlock :> <<>>) @@ _blocks
    /\ dataReqs' = dataReqs (+) SetToBag({blockRequest(rowBlock, colBlock)})
    /\ issued' = [issued EXCEPT ![<<rowBlock, colBlock>>] = @ + 1]

_fetchBlock(rowBlock, colBlock) ==
    /\ _blocks' = putBlock(_blocks, rowBlock, colBlock, Busy)
    /\ dataReqs' = dataReqs (+) SetToBag({blockRequest(rowBlock, colBlock)})
    /\ issued' = [issued EXCEPT ![<<rowBlock, colBlock>>] = @ + 1]

(* -------------------------------- data -------------------------------- *)

\* what data("body", ...) finds at the cell's block
lookup(blocks, rowBlock, colBlock) ==
    IF rowBlock \in DOMAIN blocks THEN blockAt(blocks, rowBlock, colBlock) ELSE Undefined

\* mutant of mustFetch: the "busy" marker is not tested
mustFetch_noBusyTest(blocks, rowBlock, colBlock) ==
    IF rowBlock \in DOMAIN blocks
    THEN LET block == blockAt(blocks, rowBlock, colBlock)
         IN  block = Undefined \/ block = Busy
    ELSE TRUE

\* data() calls _fetchBlock: no row object, or a falsy entry that is not "busy"
mustFetch(blocks, rowBlock, colBlock) ==
    IF rowBlock \in DOMAIN blocks
    THEN LET block == blockAt(blocks, rowBlock, colBlock)
         IN  block # Busy /\ block = Undefined
    ELSE TRUE

\* the value data("body", row, col) returns
dataBody(blocks, row, col) ==
    LET block == lookup(blocks, blockOf(row), blockOf(col))
    IN  IF block # Busy /\ block # Undefined
        THEN cellOf(block, relOf(row), relOf(col))
        ELSE Null

\* data("body", row, col), called by the grid for a cell of the visible extent
data(row, col) ==
    LET rowBlock == blockOf(row)
        colBlock == blockOf(col)
    IN  /\ Idle
        /\ row < rowCount(_meta)
        /\ col < columnCount(_meta)
        /\ emitted' = <<>>
        /\ observed' = <<>>
        /\ last' = [op |-> "data", region |-> "body", row |-> row, col |-> col,
                    ret |-> dataBody(_blocks, row, col),
                    found |-> lookup(_blocks, rowBlock, colBlock),
                    fetched |-> mustFetch(_blocks, rowBlock, colBlock)]
        /\ IF mustFetch(_blocks, rowBlock, colBlock)
           THEN /\ CanSend
                /\ _fetchBlock(rowBlock, colBlock)
           ELSE UNCHANGED <<_blocks, dataReqs, issued>>
        /\ UNCHANGED <<_fpath, _ixstr, _meta, _ready, metaReqs, settled, lastArrived>>

(* ----------------------- the _fetchBlock callback --------------------- *)

\* mutant of dataResolved: the result of a fetch issued before the last
\* invalidation is discarded
dataResolved_dropsStale(req) ==
    /\ Idle
    /\ req \in BagToSet(dataReqs)
    /\ dataReqs' = dataReqs (-) SetToBag({req})
    /\ IF ~req.stale
       THEN /\ _blocks' = putBlock(_blocks, req.rowBlock, req.colBlock, DataOf(req))
            /\ emitted' = << CellsChanged(req.row, req.column,
                                          req.rowStop - req.row, req.colStop - req.column) >>
            /\ observed' = << bodyExtent(_meta) >>
       ELSE /\ _blocks' = _blocks
            /\ emitted' = <<>>
            /\ observed' = <<>>
    /\ last' = [op |-> "dataResolved", req |-> req]
    /\ settled' = IF req.stale THEN settled
                  ELSE [settled EXCEPT ![<<req.rowBlock, req.colBlock>>] = Resolved(DataOf(req))]
    /\ UNCHANGED <<_fpath, _ixstr, _meta, _ready, metaReqs, issued, lastArrived>>

\* mutant of dataResolved: the data is stored but no cells-changed is emitted
dataResolved_silent(req) ==
    /\ Idle
    /\ req \in BagToSet(dataReqs)
    /\ dataReqs' = dataReqs (-) SetToBag({req})
    /\ _blocks' = IF req.rowBlock \in DOMAIN _blocks
                  THEN putBlock(_blocks, req.rowBlock, req.colBlock, DataOf(req))
                  ELSE _blocks
    /\ emitted' = <<>>
    /\ observed' = <<>>
    /\ last' = [op |-> "dataResolved", req |-> req]
    /\ settled' = IF req.stale THEN settled
                  ELSE [settled EXCEPT ![<<req.rowBlock, req.colBlock>>] = Resolved(DataOf(req))]
    /\ UNCHANGED <<_fpath, _ixstr, _meta, _ready, metaReqs, issued, lastArrived>>

\* hdfDataRequest(...).then(data => ...): this._blocks[rowBlock] is read at
\* resolution; when that row object does not exist the assignment throws
\* inside the callback and nothing is stored or emitted
dataResolved(req) ==
    /\ Idle
    /\ req \in BagToSet(dataReqs)
    /\ dataReqs' = dataReqs (-) SetToBag({req})
    /\ IF req.rowBlock \in DOMAIN _blocks
       THEN /\ _blocks' = putBlock(_blocks, req.rowBlock, req.colBlock, DataOf(req))
            /\ emitted' = << CellsChanged(req.row, req.column,
                                          req.rowStop - req.row, req.colStop - req.column) >>
            /\ observed' = << bodyExtent(_meta) >>
       ELSE /\ _blocks' = _blocks
            /\ emitted' = <<>>
            /\ observed' = <<>>
    /\ last' = [op |-> "dataResolved", req |-> req]
    /\ settled' = IF req.stale THEN settled
                  ELSE [settled EXCEPT ![<<req.rowBlock, req.colBlock>>] = Resolved(DataOf(req))]
    /\ UNCHANGED <<_fpath, _ixstr, _meta, _ready, metaReqs, issued, lastArrived>>

\* the request is rejected: _fetchBlock attaches no rejection handler
dataRejected(req) ==
    /\ Idle
    /\ req \in BagToSet(dataReqs)
    /\ dataReqs' = dataReqs (-) SetToBag({req})
    /\ emitted' = <<>>
    /\ observed' = <<>>
    /\ last' = [op |-> "dataRejected"]
    /\ settled' = IF req.stale THEN settled
                  ELSE [settled EXCEPT ![<<req.rowBlock, req.colBlock>>] = Failed]
    /\ UNCHANGED <<_fpath, _ixstr, _meta, _blocks, _ready, metaReqs, issued, lastArrived>>

(* ------------------------- refresh and ixstr -------------------------- *)

\* the request part of refresh(): hdfContentsRequest for the current slice string
refreshRequest(ixstr) == [ixstr |-> ixstr]

\* refresh(), called by the user interface
refresh ==
    /\ Idle
    /\ _fpath # ""
    /\ CanSend
    /\ metaReqs' = metaReqs (+) SetToBag({refreshRequest(_ixstr)})
    /\ emitted' = <<>>
    /\ observed' = <<>>
    /\ last' = [op |-> "refresh", inflight |-> BagCardinality(metaReqs),
                meta |-> _meta, blocks |-> _blocks]
    /\ UNCHANGED <<_fpath, _ixstr, _meta, _blocks, _ready, dataReqs, issued, settled, lastArrived>>

\* mutant of setIxstr: the cache is invalidated at once, before the metadata
\* arrives
setIxstr_invalidatesAtOnce(ixstr) ==
    /\ Idle
    /\ _fpath # ""
    /\ CanSend
    /\ _ixstr' = ixstr
    /\ metaReqs' = metaReqs (+) SetToBag({refreshRequest(ixstr)})
    /\ _blocks' = <<>>
    /\ emitted' = <<>>
    /\ observed' = <<>>
    /\ last' = [op |-> "ixstr", ixstr |-> ixstr, inflight |-> BagCardinality(metaReqs),
                meta |-> _meta, blocks |-> _blocks]
    /\ UNCHANGED <<_fpath, _meta, _ready, dataReqs, issued, settled, lastArrived>>

\* set ixstr(ixstr): store the slice string, then refresh() without awaiting it
setIxstr(ixstr) ==
    /\ Idle
    /\ _fpath # ""
    /\ CanSend
    /\ _ixstr' = ixstr
    /\ metaReqs' = metaReqs (+) SetToBag({refreshRequest(ixstr)})
    /\ emitted' = <<>>
    /\ observed' = <<>>
    /\ last' = [op |-> "ixstr", ixstr |-> ixstr, inflight |-> BagCardinality(metaReqs),
                meta |-> _meta, blocks |-> _blocks]
    /\ UNCHANGED <<_fpath, _meta, _blocks, _ready, dataReqs, issued, settled, lastArrived>>

\* mutant of metaResolved: a response for a slice string that is no longer
\* the active one is discarded
metaResolved_activeSliceOnly(req) ==
    /\ Idle
    /\ req \in BagToSet(metaReqs)
    /\ metaReqs' = metaReqs (-) SetToBag({req})
    /\ IF req.ixstr = _ixstr
       THEN _refresh(MetaOf(req.ixstr), _ixstr)
       ELSE /\ emitted' = <<>>
            /\ observed' = <<>>
            /\ UNCHANGED <<_meta, _blocks, dataReqs, issued, settled>>
    /\ lastArrived' = MetaOf(req.ixstr)
    /\ last' = [op |-> "metaResolved", req |-> req,
                oldRowCount |-> rowCount(_meta), oldColCount |-> columnCount(_meta)]
    /\ UNCHANGED <<_fpath, _ixstr, _ready>>

\* hdfContentsRequest(...).then(contents => this._refresh(contents.content))
metaResolved(req) ==
    /\ Idle
    /\ req \in BagToSet(metaReqs)
    /\ metaReqs' = metaReqs (-) SetToBag({req})
    /\ _refresh(MetaOf(req.ixstr), _ixstr)
    /\ lastArrived' = MetaOf(req.ixstr)
    /\ last' = [op |-> "metaResolved", req |-> req,
                oldRowCount |-> rowCount(_meta), oldColCount |-> columnCount(_meta)]
    /\ UNCHANGED <<_fpath, _ixstr, _ready>>

\* mutant of metaRejected: the cache is cleared although the request failed
metaRejected_clearsCache(req) ==
    /\ Idle
    /\ req \in BagToSet(metaReqs)
    /\ metaReqs' = metaReqs (-) SetToBag({req})
    /\ emitted' = <<>>
    /\ observed' = <<>>
    /\ _blocks' = <<>>
    /\ last' = [op |-> "metaRejected", req |-> req, meta |-> _meta, blocks |-> _blocks]
    /\ UNCHANGED <<_fpath, _ixstr, _meta, _ready, dataReqs, issued, settled, lastArrived>>

\* the metadata request is rejected: the promise of refresh() rejects and
\* the .then callback never runs
metaRejected(req) ==
    /\ Idle
    /\ req \in BagToSet(metaReqs)
    /\ metaReqs' = metaReqs (-) SetToBag({req})
    /\ emitted' = <<>>
    /\ observed' = <<>>
    /\ last' = [op |-> "metaRejected", req |-> req, meta |-> _meta, blocks |-> _blocks]
    /\ UNCHANGED <<_fpath, _ixstr, _meta, _blocks, _ready, dataReqs, issued, settled, lastArrived>>

(* ----------------------------- pure reads ----------------------------- *)

\* the header cells and the regions a painting surface asks for
HeaderIdx == {0, 5}
HeaderCells == {<<"row-header", i, 0>> : i \in HeaderIdx}
                   \cup {<<"column-header", 0, i>> : i \in HeaderIdx}
                   \cup {<<"corner-header", 0, 0>>}
RowRegions == {"body", "column-header"}
ColumnRegions == {"body", "row-header"}

Digits == <<"0", "1", "2", "3", "4", "5", "6", "7", "8", "9">>

\* `${n}`: the decimal numeral of an integer, as the sequence of its characters
RECURSIVE templateString(_)
templateString(n) ==
    IF n < 0 THEN <<"-">> \o templateString(-n)
    ELSE IF n < 10 THEN <<Digits[n + 1]>>
    ELSE templateString(n \div 10) \o <<Digits[(n % 10) + 1]>>

\* rowCount(region) and columnCount(region)
rowCountOf(region, m) == IF region = "body" THEN rowCount(m) ELSE 1
columnCountOf(region, m) == IF region = "body" THEN columnCount(m) ELSE 1

\* mutant of dataHeader: the header shows the virtual index itself
dataHeader_virtualIndex(region, row, col, m) ==
    IF region = "row-header" THEN templateString(row)
    ELSE IF region = "column-header" THEN templateString(col)
    ELSE Null

\* the value data(region, row, col) returns for a header region
dataHeader(region, row, col, m) ==
    IF region = "row-header"
    THEN templateString(rowSlice(m).start + row * rowSlice(m).step)
    ELSE IF region = "column-header"
    THEN templateString(colSlice(m).start + col * colSlice(m).step)
    ELSE Null

\* history: the fields and the requests in flight when a read is called
before == [ixstr |-> _ixstr, meta |-> _meta, blocks |-> _blocks,
           metaReqs |-> metaReqs, dataReqs |-> dataReqs]

\* mutant of headerData: the header branches do not return, the call goes on
\* into the body branch
headerData_fallsThrough(region, row, col) ==
    /\ Idle
    /\ emitted' = <<>>
    /\ observed' = <<>>
    /\ last' = [op |-> "headerData", region |-> region, row |-> row, col |-> col,
                ret |-> dataHeader(region, row, col, _meta), before |-> before]
    /\ IF mustFetch(_blocks, blockOf(row), blockOf(col))
       THEN /\ CanSend
            /\ _fetchBlock(blockOf(row), blockOf(col))
       ELSE UNCHANGED <<_blocks, dataReqs, issued>>
    /\ UNCHANGED <<_fpath, _ixstr, _meta, _ready, metaReqs, settled, lastArrived>>

\* data(region, row, col) for a header region
headerData(region, row, col) ==
    /\ Idle
    /\ emitted' = <<>>
    /\ observed' = <<>>
    /\ last' = [op |-> "headerData", region |-> region, row |-> row, col |-> col,
                ret |-> dataHeader(region, row, col, _meta), before |-> before]
    /\ UNCHANGED <<_fpath, _ixstr, _meta, _blocks, _ready, metaReqs, dataReqs,
                   issued, settled, lastArrived>>

\* a call of rowCount(region)
getRowCount(region) ==
    /\ Idle
    /\ emitted' = <<>>
    /\ observed' = <<>>
    /\ last' = [op |-> "rowCount", region |-> region,
                ret |-> rowCountOf(region, _meta), before |-> before]
    /\ UNCHANGED <<_fpath, _ixstr, _meta, _blocks, _ready, metaReqs, dataReqs,
                   issued, settled, lastArrived>>

\* a call of columnCount(region)
getColumnCount(region) ==
    /\ Idle
    /\ emitted' = <<>>
    /\ observed' = <<>>
    /\ last' = [op |-> "columnCount", region |-> region,
                ret |-> columnCountOf(region, _meta), before |-> before]
    /\ UNCHANGED <<_fpath, _ixstr, _meta, _blocks, _ready, metaReqs, dataReqs,
                   issued, settled, lastArrived>>

\* a read of the rowSlice getter
getRowSlice ==
    /\ Idle
    /\ emitted' = <<>>
    /\ observed' = <<>>
    /\ last' = [op |-> "rowSlice", ret |-> rowSlice(_meta), before |-> before]
    /\ UNCHANGED <<_fpath, _ixstr, _meta, _blocks, _ready, metaReqs, dataReqs,
                   issued, settled, lastArrived>>

\* a read of the colSlice getter
getColSlice ==
    /\ Idle
    /\ emitted' = <<>>
    /\ observed' = <<>>
    /\ last' = [op |-> "colSlice", ret |-> colSlice(_meta), before |-> before]
    /\ UNCHANGED <<_fpath, _ixstr, _meta, _blocks, _ready, metaReqs, dataReqs,
                   issued, settled, lastArrived>>

(* ---------------------------- specification --------------------------- *)

Next ==
    \/ \E ixstr \in IxStrs : init(ixstr)
    \/ readyResolve
    \/ \E row \in QueryRows, col \in QueryCols : data(row, col)
    \/ \E req \in BagToSet(dataReqs) : dataResolved(req)
    \/ \E req \in BagToSet(dataReqs) : dataRejected(req)
    \/ refresh
    \/ \E ixstr \in IxStrs : setIxstr(ixstr)
    \/ \E req \in BagToSet(metaReqs) : metaResolved(req)
    \/ \E req \in BagToSet(metaReqs) : metaRejected(req)
    \/ \E cell \in HeaderCells : headerData(cell[1], cell[2], cell[3])
    \/ \E region \in RowRegions : getRowCount(region)
    \/ \E region \in ColumnRegions : getColumnCount(region)
    \/ getRowSlice
    \/ getColSlice

Spec == Init /\ [][Next]_vars

\* the server answers every block-data request: no hdfDataRequest is rejected,
\* and a request in flight is eventually answered
NextDataSucceeds ==
    \/ \E ixstr \in IxStrs : init(ixstr)
    \/ readyResolve
    \/ \E row \in QueryRows, col \in QueryCols : data(row, col)
    \/ \E req \in BagToSet(dataReqs) : dataResolved(req)
    \/ refresh
    \/ \E ixstr \in IxStrs : setIxstr(ixstr)
    \/ \E req \in BagToSet(metaReqs) : metaResolved(req)
    \/ \E req \in BagToSet(metaReqs) : metaRejected(req)
    \/ \E cell \in HeaderCells : headerData(cell[1], cell[2], cell[3])
    \/ \E region \in RowRegions : getRowCount(region)
    \/ \E region \in ColumnRegions : getColumnCount(region)
    \/ getRowSlice
    \/ getColSlice

\* the server answers every metadata request: no hdfContentsRequest is rejected
NextMetaSucceeds ==
    \/ \E ixstr \in IxStrs : init(ixstr)
    \/ readyResolve
    \/ \E row \in QueryRows, col \in QueryCols : data(row, col)
    \/ \E req \in BagToSet(dataReqs) : dataResolved(req)
    \/ \E req \in BagToSet(dataReqs) : dataRejected(req)
    \/ refresh
    \/ \E ixstr \in IxStrs : setIxstr(ixstr)
    \/ \E req \in BagToSet(metaReqs) : metaResolved(req)
    \/ \E cell \in HeaderCells : headerData(cell[1], cell[2], cell[3])
    \/ \E region \in RowRegions : getRowCount(region)
    \/ \E region \in ColumnRegions : getColumnCount(region)
    \/ getRowSlice
    \/ getColSlice

MetaSucceedsSpec == Init /\ [][NextMetaSucceeds]_vars

FairSpec ==
    /\ Init
    /\ [][NextDataSucceeds]_vars
    /\ WF_vars(\E req \in BagToSet(dataReqs) : dataResolved(req))

(* ------------------------------- claims ------------------------------- *)

\* the block of the cell the last data() call asked for
lastBlock == <<blockOf(last.row), blockOf(last.col)>>

\* the requests in flight for block b that satisfy keep
inFlight(b, keep(_)) ==
    LET rs == {r \in DOMAIN dataReqs : r.rowBlock = b[1] /\ r.colBlock = b[2] /\ keep(r)}
    IN  BagCardinality([r \in rs |-> dataReqs[r]])

isFresh(r) == ~r.stale
isAny(r) == TRUE

\* C1: between two consecutive invalidations at most one block-data fetch is
\* issued for any block, and a data("body") call that finds the block Pending
\* or Resolved issues no request.
C1_AtMostOneFetchPerBlock ==
    /\ \A b \in Blocks : issued[b] <= 1
    /\ last.op = "data" /\ last.found # Undefined => ~last.fetched

\* a data() call found its block Pending and the block has had exactly one fetch
C1_Witness ==
    /\ last.op = "data"
    /\ last.found = Busy
    /\ issued[lastBlock] = 1

\* C2: a data("body") call on an Absent block returns null and leaves the block
\* Pending; a call on a Pending block returns null; once the fetch issued for
\* the block since the last invalidation has resolved with data D, a call
\* returns D[row mod blockSize][col mod blockSize].
C2_NullUntilResolved ==
    last.op = "data" =>
        /\ last.found = Undefined =>
              last.ret = Null /\ lookup(_blocks, lastBlock[1], lastBlock[2]) = Busy
        /\ last.found = Busy => last.ret = Null
        /\ settled[lastBlock].tag = "resolved" =>
              last.ret = cellOf(settled[lastBlock].data, relOf(last.row), relOf(last.col))

\* C3: no data("body") call returns data of a fetch that was issued before the
\* last invalidation: whatever a call returns other than null comes from the
\* data the block's own fetch, issued since that invalidation, resolved with.
C3_NoStaleDataVisible ==
    last.op = "data" /\ last.ret # Null =>
        /\ settled[lastBlock].tag = "resolved"
        /\ last.found = settled[lastBlock].data

\* C4: every successful refresh that changes the visible shape from (r1, c1)
\* to (r2, c2) emits exactly RowsRemoved{0, r1}, ColumnsRemoved{0, c1},
\* RowsInserted{0, r2}, ColumnsInserted{0, c2}, ModelReset and then one
\* "refreshed" notification carrying the active slice string, in this order.
C4_RefreshEmitsExactCycle ==
    last.op \in {"init", "metaResolved"} =>
        emitted = << RowsRemoved(last.oldRowCount), ColumnsRemoved(last.oldColCount),
                     RowsInserted(rowCount(_meta)), ColumnsInserted(columnCount(_meta)),
                     ModelReset, Refreshed(_ixstr) >>

\* a metadata response has just changed the visible shape from (250, 50) to (160, 150)
C4_Witness ==
    /\ last.op = "metaResolved"
    /\ <<last.oldRowCount, last.oldColCount>> = <<250, 50>>
    /\ <<rowCount(_meta), columnCount(_meta)>> = <<160, 150>>
    /\ Len(emitted) = 6

\* the sub-range of block (rowBlock, colBlock) on a grid of visible shape vis
expectedRange(rowBlock, colBlock, vis) ==
    LET row == rowBlock * _blockSize
        column == colBlock * _blockSize
    IN  [row |-> row, column |-> column,
         rowSpan |-> Min(row + _blockSize, vis[1]) - row,
         columnSpan |-> Min(column + _blockSize, vis[2]) - column]

\* C5: for a block fetched while the visible shape is (R, C), the requested
\* sub-range and the CellsChanged emitted on success are row = blockRow *
\* blockSize, column = blockCol * blockSize, rowSpan = min(row + blockSize, R)
\* - row, columnSpan = min(column + blockSize, C) - column; on shape (250, 50)
\* block (1, 0) has spans (100, 50) and block (2, 0) has row span 50.
C5_ClippedBlockRange ==
    /\ \A req \in DOMAIN dataReqs :
          LET x == expectedRange(req.rowBlock, req.colBlock, req.vis)
          IN  /\ req.row = x.row /\ req.rowStop = x.row + x.rowSpan
              /\ req.column = x.column /\ req.colStop = x.column + x.columnSpan
              /\ req.vis = <<250, 50>> /\ req.rowBlock = 1 /\ req.colBlock = 0 =>
                    req.rowStop - req.row = 100 /\ req.colStop - req.column = 50
              /\ req.vis = <<250, 50>> /\ req.rowBlock = 2 /\ req.colBlock = 0 =>
                    req.rowStop - req.row = 50
    /\ last.op = "dataResolved" /\ emitted # <<>> =>
          LET x == expectedRange(last.req.rowBlock, last.req.colBlock, last.req.vis)
          IN  emitted = << CellsChanged(x.row, x.column, x.rowSpan, x.columnSpan) >>

\* the fetch of block (2, 0) on shape (250, 50) has resolved: rows [200, 250)
C5_Witness ==
    /\ last.op = "dataResolved"
    /\ last.req.vis = <<250, 50>>
    /\ emitted = << CellsChanged(200, 0, 50, 50) >>

\* C6: in every reachable state at most one block-data fetch is in flight for
\* any block, fetches issued before a refresh included.
C6_OneInFlightPerBlock ==
    \A b \in Blocks : inFlight(b, isAny) <= 1

\* C6 as amended: in every reachable state at most one block-data fetch issued
\* since the last invalidation is in flight for any block.
C6_OneFreshInFlightPerBlock ==
    \A b \in Blocks : inFlight(b, isFresh) <= 1

\* a fetch issued before a refresh and a fetch issued after it are in flight
\* for the same block
C6_Witness ==
    \E b \in Blocks : inFlight(b, isAny) = 2 /\ inFlight(b, isFresh) = 1

\* C7: a refresh whose metadata fetch fails (called directly or through the
\* ixstr setter) emits no change event and no "refreshed" notification, and
\* neither its request nor its failure changes the metadata or the block cache.
C7_FailedRefreshChangesNothing ==
    last.op \in {"refresh", "ixstr", "metaRejected"} =>
        /\ emitted = <<>>
        /\ _meta = last.meta
        /\ _blocks = last.blocks

\* a metadata request has just failed while the cache holds a resolved block
C7_Witness ==
    /\ last.op = "metaRejected"
    /\ _meta # Undefined
    /\ \E b \in Blocks : /\ b[1] \in DOMAIN _blocks
                         /\ settled[b].tag = "resolved"
                         /\ lookup(_blocks, b[1], b[2]) = settled[b].data

\* C8: a block whose data fetch failed stays Pending until the next
\* invalidation: every data("body") call on it returns null and issues no fetch.
C8_FailedBlockStaysPending ==
    \A b \in Blocks :
        settled[b] = Failed =>
            /\ lookup(_blocks, b[1], b[2]) = Busy
            /\ last.op = "data" /\ lastBlock = b => last.ret = Null /\ ~last.fetched

\* the CellsChanged the callback of request req emits
cellsChangedOf(req) ==
    CellsChanged(req.row, req.column, req.rowStop - req.row, req.colStop - req.column)

C10_LastResponseWins ==
    /\ last.op = "ixstr" =>
          /\ _ixstr = last.ixstr
          /\ BagIn(refreshRequest(last.ixstr), metaReqs)
          /\ BagCardinality(metaReqs) = last.inflight + 1
    /\ last.op = "metaResolved" =>
          /\ _meta = MetaOf(last.req.ixstr)
          /\ _blocks = <<>>
          /\ Len(emitted) = 6
          /\ emitted[5] = ModelReset
          /\ emitted[6] = Refreshed(_ixstr)
    /\ metaReqs = EmptyBag /\ lastArrived # Undefined => _meta = lastArrived

\* all responses have arrived; the last one was the response to an earlier
\* ixstr assignment, and its metadata is the one held
C10_Witness ==
    /\ metaReqs = EmptyBag
    /\ last.op = "metaResolved"
    /\ last.req.ixstr # _ixstr
    /\ _meta = lastArrived
    /\ _meta.ixstr # _ixstr

\* C11: the ready promise is one-shot: it is not resolved before init has
\* installed the initial metadata and emitted the whole first invalidation
\* cycle, it is resolved right after that cycle, and it stays resolved through
\* every later handler (refresh, ixstr assignment, responses, queries).
C11_ReadyIsOneShot ==
    /\ _ready = "pending" => _fpath = "" /\ _meta = Undefined
    /\ last.op = "init" =>
          /\ _ready = "scheduled"
          /\ _meta = MetaOf(last.ixstr)
          /\ emitted = << RowsRemoved(0), ColumnsRemoved(0),
                          RowsInserted(rowCount(_meta)), ColumnsInserted(columnCount(_meta)),
                          ModelReset, Refreshed(last.ixstr) >>
    /\ _ready = "resolved" => _fpath # "" /\ _meta # Undefined
    /\ _fpath # "" /\ last.op # "init" => _ready = "resolved"

\* a later metadata response has run its invalidation cycle and the promise
\* is still resolved
C11_Witness ==
    /\ _ready = "resolved"
    /\ last.op = "metaResolved"
    /\ Len(emitted) = 6

\* the integer a decimal numeral denotes
digitValue(ch) == CHOOSE d \in 0..9 : Digits[d + 1] = ch
RECURSIVE numberOf(_)
numberOf(str) ==
    IF str = <<>> THEN 0
    ELSE numberOf(SubSeq(str, 1, Len(str) - 1)) * 10 + digitValue(str[Len(str)])

\* a canonical decimal numeral of a natural number
isNumeral(str) ==
    /\ Len(str) >= 1
    /\ \A i \in 1..Len(str) : \E d \in 1..10 : Digits[d] = str[i]
    /\ Len(str) > 1 => str[1] # "0"

\* the slice labels of the held metadata, the no-op slice when there is none
labelsOf(m, axis) == IF m = Undefined THEN [start |-> 0, step |-> 1] ELSE m.vislabels[axis]

\* C12: data("row-header", i, *) returns the decimal string of
\* rowSlice.start + i * rowSlice.step, data("column-header", *, i) that of
\* colSlice.start + i * colSlice.step, with the labels of the metadata held at
\* the call (start 0, step 1 when there is none); data("corner-header")
\* returns null.
C12_HeaderLabels ==
    last.op = "headerData" =>
        /\ last.region = "row-header" =>
              /\ isNumeral(last.ret)
              /\ numberOf(last.ret) = labelsOf(_meta, 1).start + last.row * labelsOf(_meta, 1).step
        /\ last.region = "column-header" =>
              /\ isNumeral(last.ret)
              /\ numberOf(last.ret) = labelsOf(_meta, 2).start + last.col * labelsOf(_meta, 2).step
        /\ last.region = "corner-header" => last.ret = Null
        /\ last.region = "row-header" /\ last.row = 5 /\ _meta = MetaOf(IxB) =>
              last.ret = <<"2", "0">>

\* the row header of virtual row 5 is read under the slice 10:330:2
C12_Witness ==
    /\ last.op = "headerData"
    /\ last.region = "row-header"
    /\ last.row = 5
    /\ _meta = MetaOf(IxB)
    /\ last.ret = <<"2", "0">>

\* C13: a block changes state only along Absent -> Pending (a data("body")
\* call on one of its cells), Pending -> Resolved (the fetch issued for it
\* since the last invalidation succeeds) and any -> Absent (an invalidation);
\* so no block goes Absent -> Resolved, and a Resolved block neither goes back
\* to Pending nor has its data replaced without an invalidation in between.
C13_BlockLifecycle ==
    [][\A b \in Blocks :
          LET s == lookup(_blocks, b[1], b[2])
              t == lookup(_blocks', b[1], b[2])
          IN  s # t =>
                \/ /\ s = Undefined
                   /\ t = Busy
                   /\ last'.op = "data"
                   /\ <<blockOf(last'.row), blockOf(last'.col)>> = b
                \/ /\ s = Busy
                   /\ t.tag = "data"
                   /\ last'.op = "dataResolved"
                   /\ <<last'.req.rowBlock, last'.req.colBlock>> = b
                   /\ ~last'.req.stale
                \/ /\ t = Undefined
                   /\ last'.op \in {"init", "metaResolved"}]_vars

\* the event e tells a listener that the body cell (row, col) may have changed
covers(e, row, col) ==
    /\ e.signal = "changed"
    /\ \/ e.args.type = "model-reset"
       \/ /\ e.args.type = "cells-changed"
          /\ e.args.row <= row /\ row < e.args.row + e.args.rowSpan
          /\ e.args.column <= col /\ col < e.args.column + e.args.columnSpan

\* C14: when every block-data request is answered, a data("body", r, c) call
\* that returns null for a cell of the visible extent is eventually followed by
\* a change event that covers the cell: a cells-changed whose span contains
\* (r, c), or a model-reset.
C14_NullIsFollowedByChange ==
    \A r \in QueryRows, c \in QueryCols :
        (last.op = "data" /\ last.row = r /\ last.col = c /\ last.ret = Null)
            ~> (\E i \in 1..Len(emitted) : covers(emitted[i], r, c))

\* the fetch a null-returning query of (150, 0) issued has resolved and its
\* cells-changed covers the cell
C14_Witness ==
    /\ last.op = "dataResolved"
    /\ ~last.req.stale
    /\ issued[<<1, 0>>] = 1
    /\ Len(emitted) = 1
    /\ covers(emitted[1], 150, 0)

\* the last handler ran _refresh
ranRefresh == last.op \in {"init", "metaResolved"}

\* C15: within one refresh the removal events are emitted before the new
\* metadata is swapped in: while rows-removed and columns-removed are emitted
\* rowCount("body") and columnCount("body") still report the old extent, and
\* from rows-inserted on they report the new one.
C15_RemovalsSeeOldExtent ==
    ranRefresh =>
        /\ observed[1] = <<last.oldRowCount, last.oldColCount>>
        /\ observed[2] = <<last.oldRowCount, last.oldColCount>>
        /\ \A i \in 3..5 : observed[i] = bodyExtent(_meta)

\* C15 (amended): within one refresh the new metadata is swapped in and the
\* cache is cleared before any event is emitted: the removal events carry the
\* old extent as their span, read before the swap, and during every emission
\* of the cycle, the removal events included, rowCount("body") and
\* columnCount("body") report the new extent.
C15_EventsSeeNewExtent ==
    ranRefresh =>
        /\ Len(observed) = 6
        /\ \A i \in 1..6 : observed[i] = bodyExtent(_meta)
        /\ emitted[1] = RowsRemoved(last.oldRowCount)
        /\ emitted[2] = ColumnsRemoved(last.oldColCount)
        /\ emitted[3] = RowsInserted(rowCount(_meta))
        /\ emitted[4] = ColumnsInserted(columnCount(_meta))
        /\ _blocks = <<>>

\* a refresh that changed the shape: rows-removed carries the old row count
\* while the model already reports the new one
C15_Witness ==
    /\ last.op = "metaResolved"
    /\ last.oldRowCount # rowCount(_meta)
    /\ emitted[1] = RowsRemoved(last.oldRowCount)
    /\ observed[1] = bodyExtent(_meta)

\* C16: the ixstr setter returns at once: right after it the active slice
\* string is the one assigned and exactly one more metadata request, for that
\* string, is in flight, while the metadata, the block cache, the block-data
\* requests and the emitted events are as before; the metadata is replaced and
\* an invalidation cycle is emitted only by a handler that runs _refresh (init,
\* or the success callback of a metadata request).
C16_SetterOnlyIssuesFetch ==
    [][/\ last'.op = "ixstr" =>
             /\ _ixstr' = last'.ixstr
             /\ metaReqs' = metaReqs (+) SetToBag({refreshRequest(last'.ixstr)})
             /\ _meta' = _meta
             /\ _blocks' = _blocks
             /\ dataReqs' = dataReqs
             /\ emitted' = <<>>
       /\ (_meta' # _meta \/ Len(emitted') > 1) =>
             /\ last'.op \in {"init", "metaResolved"}
             /\ last'.op = "metaResolved" => BagIn(last'.req, metaReqs)]_vars

\* the setter has switched the slice string while the cache still holds a
\* block and the metadata is that of the other slice
C16_Witness ==
    /\ last.op = "ixstr"
    /\ _ixstr = last.ixstr
    /\ _meta.ixstr # _ixstr
    /\ _blocks # <<>>
    /\ BagIn(refreshRequest(_ixstr), metaReqs)

\* the handlers that are reads of the model
ReadOps == {"rowCount", "columnCount", "rowSlice", "colSlice", "headerData"}

\* C17: rowCount, columnCount, the slice getters and data() for the three
\* header regions are pure reads: in every state, also before any metadata is
\* held, they send no request, emit nothing, and leave the block cache, the
\* metadata and the slice string as they were.
C17_ReadsArePure ==
    last.op \in ReadOps =>
        /\ metaReqs = last.before.metaReqs
        /\ dataReqs = last.before.dataReqs
        /\ emitted = <<>>
        /\ _blocks = last.before.blocks
        /\ _meta = last.before.meta
        /\ _ixstr = last.before.ixstr

\* a header cell is read before init(): no metadata is held
C17_Witness ==
    /\ last.op = "headerData"
    /\ last.region = "column-header"
    /\ _meta = Undefined
    /\ last.ret = <<"5">>

\* C18: every cells-changed event lies inside the visible extent that is
\* current when it is emitted: row + rowSpan <= rowCount("body"),
\* column + columnSpan <= columnCount("body"), and no span is negative.
C18_CellsChangedInsideExtent ==
    \A i \in 1..Len(emitted) :
        emitted[i].signal = "changed" /\ emitted[i].args.type = "cells-changed" =>
            LET e == emitted[i].args
            IN  /\ e.rowSpan >= 0
                /\ e.columnSpan >= 0
                /\ e.row + e.rowSpan <= observed[i][1]
                /\ e.column + e.columnSpan <= observed[i][2]

\* C19: every block-data request pairs a slice string with a sub-range that
\* was clipped against the visible shape of that same slice string: when a
\* data("body") call issues a fetch, the held metadata is the metadata of the
\* active slice string.
C19_FetchMatchesActiveSlice ==
    /\ last.op = "data" /\ last.fetched => _meta = MetaOf(_ixstr)
    /\ \A req \in DOMAIN dataReqs : req.vis = bodyExtent(MetaOf(req.ixstr))

\* C20: when every metadata request has been answered successfully and none
\* is in flight, the held metadata is the metadata of the active slice string,
\* and the slice string the last refreshed signal carried is the one the held
\* metadata was fetched for, whatever the order the responses arrived in.
C20_QuiescentMetadataIsActive ==
    metaReqs = EmptyBag /\ _fpath # "" =>
        /\ _meta = MetaOf(_ixstr)
        /\ last.op = "metaResolved" =>
              /\ emitted[6] = Refreshed(last.req.ixstr)
              /\ _meta = MetaOf(last.req.ixstr)

====
